---- MODULE Spec2Model ----
(***************************************************************************)
(* Model of skills/confluence-upload/confluence_upload.py: a one-shot      *)
(* uploader/deleter that maps a local directory tree of markdown files to  *)
(* a tree of pages of a remote space.  The remote space is the only state  *)
(* that survives a process; a session is a first invocation followed by    *)
(* at most one more invocation against the same source and target.         *)
(***************************************************************************)
EXTENDS Integers, Sequences, FiniteSets, TLC

(***************************************************************************)
(* Bounds of the model.                                                    *)
(***************************************************************************)
\* Largest number of entries (files and directories) below the source root.
MaxNodes == 4
\* Largest number of non-success remote responses in one session.
MaxFaults == 1

(***************************************************************************)
(* Strings are sequences of one-character strings, so that the string      *)
(* functions of the program are computed and not assumed.                  *)
(***************************************************************************)
Lowers == <<"a","b","c","d","e","f","g","h","i","j","k","l","m",
            "n","o","p","q","r","s","t","u","v","w","x","y","z">>
Uppers == <<"A","B","C","D","E","F","G","H","I","J","K","L","M",
            "N","O","P","Q","R","S","T","U","V","W","X","Y","Z">>

IndexIn(c, seq) == IF \E i \in DOMAIN seq : seq[i] = c
                   THEN CHOOSE i \in DOMAIN seq : seq[i] = c
                   ELSE 0

IsCased(c) == IndexIn(c, Lowers) > 0 \/ IndexIn(c, Uppers) > 0
Upper(c) == IF IndexIn(c, Lowers) > 0 THEN Uppers[IndexIn(c, Lowers)] ELSE c
Lower(c) == IF IndexIn(c, Uppers) > 0 THEN Lowers[IndexIn(c, Uppers)] ELSE c

\* The code point of a character, which is what sorted() compares.
Code(c) == IF IndexIn(c, Lowers) > 0 THEN 96 + IndexIn(c, Lowers)
           ELSE IF IndexIn(c, Uppers) > 0 THEN 64 + IndexIn(c, Uppers)
           ELSE IF c = " " THEN 32
           ELSE IF c = "-" THEN 45
           ELSE IF c = "." THEN 46
           ELSE IF c = "/" THEN 47
           ELSE 95   \* "_"

\* s < t in Python's order on str.
RECURSIVE StrLess(_, _)
StrLess(s, t) ==
    IF t = <<>> THEN FALSE
    ELSE IF s = <<>> THEN TRUE
    ELSE IF Code(Head(s)) # Code(Head(t)) THEN Code(Head(s)) < Code(Head(t))
    ELSE StrLess(Tail(s), Tail(t))

\* sorted(S) for a set of distinct strings.
RECURSIVE Sorted(_)
Sorted(S) ==
    IF S = {} THEN <<>>
    ELSE LET m == CHOOSE x \in S : \A y \in S \ {x} : StrLess(x, y)
         IN  <<m>> \o Sorted(S \ {m})

\* str.startswith / str.endswith
StartsWith(s, p) == Len(s) >= Len(p) /\ SubSeq(s, 1, Len(p)) = p
EndsWith(s, p) == Len(s) >= Len(p) /\ SubSeq(s, Len(s) - Len(p) + 1, Len(s)) = p

\* str.replace(old, new) for one-character old and new.
Replace(s, old, new) == [i \in DOMAIN s |-> IF s[i] = old THEN new ELSE s[i]]

\* str.title(): a cased character is upper-cased after an uncased one (or at
\* the start) and lower-cased after a cased one.
RECURSIVE TitleFrom(_, _)
TitleFrom(s, prevCased) ==
    IF s = <<>> THEN <<>>
    ELSE LET c == Head(s)
         IN  <<IF IsCased(c) THEN (IF prevCased THEN Lower(c) ELSE Upper(c)) ELSE c>>
             \o TitleFrom(Tail(s), IsCased(c))
StrTitle(s) == TitleFrom(s, FALSE)

\* pathlib's stem: the name without its last suffix; a leading dot starts no
\* suffix.
Stem(name) ==
    LET dots == {i \in DOMAIN name : name[i] = "." /\ i > 1 /\ i < Len(name)}
    IN  IF dots = {} THEN name
        ELSE SubSeq(name, 1, (CHOOSE i \in dots : \A j \in dots : j <= i) - 1)

pretty_title(stem) == StrTitle(Replace(Replace(stem, "_", " "), "-", " "))

DotMd == <<".", "m", "d">>

(***************************************************************************)
(* The local filesystem below the source root.  An entry is a path (the    *)
(* names from the root down) and a kind.                                   *)
(***************************************************************************)
RootDirName == <<"d","o","c","s">>

Entry(path, kind) == [path |-> path, kind |-> kind]

nAB1  == <<"a","-","b",".","m","d">>
nAB2  == <<"a","_","b",".","m","d">>
nTxt  == <<"n",".","t","x","t">>
nG    == <<"g">>
nS    == <<"s",".","m","d">>
nD    == <<"d">>
nX    == <<"x",".","m","d">>
nDocs == <<"D","o","c","s">>
nHid  == <<".","h">>
nZ    == <<"z">>

\* The entries a source tree is drawn from: two files whose names differ
\* only in the separator, a file that is no document, nested directories, a
\* directory named as the root page, a hidden directory.
Candidates ==
    { Entry(<<nAB1>>, "file"), Entry(<<nAB2>>, "file"), Entry(<<nTxt>>, "file"),
      Entry(<<nG>>, "dir"), Entry(<<nG, nS>>, "file"),
      Entry(<<nG, nD>>, "dir"), Entry(<<nG, nD, nX>>, "file"),
      Entry(<<nDocs>>, "dir"), Entry(<<nHid>>, "dir"), Entry(<<nZ>>, "dir") }

Parent(path) == SubSeq(path, 1, Len(path) - 1)
Name(path) == path[Len(path)]

\* A tree holds the directory of each of its entries.
Trees ==
    { T \in SUBSET Candidates :
        /\ Cardinality(T) <= MaxNodes
        /\ \A e \in T : Len(e.path) > 1 => Entry(Parent(e.path), "dir") \in T }

(***************************************************************************)
(* Identifiers.  None is Python's None; an id is truthy iff it is not      *)
(* None (ids are non-empty strings).                                       *)
(***************************************************************************)
None == <<"None">>
DryRunId == <<"dry-run-id">>
ParentArg == <<"parent-id">>
PageId(n) == <<"page", n>>
Truthy(id) == id # None

Page(id, title, parent) == [id |-> id, title |-> title, parent |-> parent]

ZeroStats == [created |-> 0, skipped |-> 0, failed |-> 0, deleted |-> 0]

VARIABLES
    tree,        \* the source directory tree (never written by the program)
    space,       \* the pages of the remote space
    nextId,      \* the remote service's next page number
    faults,      \* non-success responses answered so far in the session
    run,         \* 1: first invocation, 2: second invocation
    pc,          \* "start", "ready" (client built), "main" (traversal), "exit"
    env,         \* the two credential environment variables
    args,        \* the parsed command line
    exitCode,    \* the process's exit status (-1 while it runs)
    stats,       \* ConfluenceClient.stats
    root,        \* [id, title] of the root page in main
    topFiles,    \* main: top-level documents not yet uploaded
    topDirs,     \* main: top-level directories not yet processed
    stack,       \* the active upload_directory calls, innermost last
    calls,       \* history: the create_page calls of this process, in order
    lastCall,    \* history: the last create_page or delete_page call
    sincePace,   \* history: what came last, a traversal create_page or a sleep
    spaceAtStart,\* history: the space when this process started
    first        \* history: how the first invocation ended

vars == <<tree, space, nextId, faults, run, pc, env, args, exitCode, stats, root,
          topFiles, topDirs, stack, calls, lastCall, sincePace, spaceAtStart, first>>

(***************************************************************************)
(* The remote service.                                                     *)
(***************************************************************************)
Matches(title) == {p \in space : p.title = title}

Orderings(S) ==
    {sq \in [1..Cardinality(S) -> S] : \A i, j \in DOMAIN sq : sq[i] = sq[j] => i = j}

\* The answers the service can give to GET /content?title=...: the pages of
\* that title in some order, or a non-success status.
LookupResponses(title) ==
    {[status |-> 200, results |-> sq] : sq \in Orderings(Matches(title))}
    \cup {[status |-> 500, results |-> <<>>]}

\* The answers to POST /content and DELETE /content/{id}.
PostResponses == {[status |-> 200], [status |-> 400]}
DeleteResponses == {[status |-> 204], [status |-> 403]}

\* The page a successful POST stores.
Stored(title, parent_id) == Page(PageId(nextId), title, parent_id)

\* A page and its descendants: what a successful DELETE removes.
RECURSIVE Subtree(_)
Subtree(ids) ==
    LET more == {p.id : p \in {q \in space : q.parent \in ids}} \ ids
    IN  IF more = {} THEN ids ELSE Subtree(ids \cup more)

(***************************************************************************)
(* ConfluenceClient.  Each operation is computed from the responses the    *)
(* service gives to its requests and returns what it leaves behind: the    *)
(* return value, the space, the counters and whether a mutating request    *)
(* was sent.                                                               *)
(***************************************************************************)
\* find_page: the id of the first result whose title is the title asked
\* for, None when there is none or the status is not 200.
find_page(title, resp) ==
    LET hits == {i \in DOMAIN resp.results : resp.results[i].title = title}
    IN  IF resp.status = 200 /\ hits # {}
        THEN resp.results[CHOOSE i \in hits : \A j \in hits : i <= j].id
        ELSE None

Outcome(ret, sp, st, sent, stored) ==
    [ret |-> ret, space |-> sp, stats |-> st, sent |-> sent, stored |-> stored]

\* create_page without the skip of an existing title.
create_page_noSkip(title, parent_id, resp, post) ==
    IF args.dry
    THEN Outcome(DryRunId, space, [stats EXCEPT !.created = @ + 1], FALSE, FALSE)
    ELSE IF post.status \in {200, 201}
    THEN Outcome(PageId(nextId), space \cup {Stored(title, parent_id)},
                 [stats EXCEPT !.created = @ + 1], TRUE, TRUE)
    ELSE Outcome(None, space, [stats EXCEPT !.failed = @ + 1], TRUE, FALSE)

\* create_page(title, body_html, parent_id); the body is not modelled.
create_page(title, parent_id, resp, post) ==
    LET existing == find_page(title, resp)
    IN  IF Truthy(existing)
        THEN Outcome(existing, space, [stats EXCEPT !.skipped = @ + 1], FALSE, FALSE)
        ELSE IF args.dry
        THEN Outcome(DryRunId, space, [stats EXCEPT !.created = @ + 1], FALSE, FALSE)
        ELSE IF post.status \in {200, 201}
        THEN Outcome(PageId(nextId), space \cup {Stored(title, parent_id)},
                     [stats EXCEPT !.created = @ + 1], TRUE, TRUE)
        ELSE Outcome(None, space, [stats EXCEPT !.failed = @ + 1], TRUE, FALSE)

\* delete_page counting a title it did not find as deleted.
delete_page_countsMissing(title, resp, del) ==
    LET page_id == find_page(title, resp)
    IN  IF ~Truthy(page_id)
        THEN Outcome(FALSE, space, [stats EXCEPT !.deleted = @ + 1], FALSE, FALSE)
        ELSE IF args.dry
        THEN Outcome(TRUE, space, stats, FALSE, FALSE)
        ELSE IF del.status \in {200, 204}
        THEN Outcome(TRUE, {p \in space : p.id \notin Subtree({page_id})},
                     [stats EXCEPT !.deleted = @ + 1], TRUE, FALSE)
        ELSE Outcome(FALSE, space, stats, TRUE, FALSE)

\* delete_page(title); ret is the boolean it returns.
delete_page(title, resp, del) ==
    LET page_id == find_page(title, resp)
    IN  IF ~Truthy(page_id)
        THEN Outcome(FALSE, space, stats, FALSE, FALSE)
        ELSE IF args.dry
        THEN Outcome(TRUE, space, stats, FALSE, FALSE)
        ELSE IF del.status \in {200, 204}
        THEN Outcome(TRUE, {p \in space : p.id \notin Subtree({page_id})},
                     [stats EXCEPT !.deleted = @ + 1], TRUE, FALSE)
        ELSE Outcome(FALSE, space, stats, TRUE, FALSE)

\* The non-success responses an operation received.
FaultsOf(resp, r, answer, good) ==
    (IF resp.status = 200 THEN 0 ELSE 1)
    + (IF r.sent /\ answer.status \notin good THEN 1 ELSE 0)

\* get_auth: whether both credentials are set and non-empty.
Falsy(v) == v = "unset" \/ v = "empty"
\* get_auth testing the email alone.
get_auth_emailOnly(e) == ~Falsy(e.email)
get_auth(e) == ~(Falsy(e.email) \/ Falsy(e.token))

(***************************************************************************)
(* Directory listing, as upload_directory and main filter and sort it.     *)
(***************************************************************************)
ListDir(dir) == {Name(e.path) : e \in {x \in tree : Parent(x.path) = dir}}
IsDir(path) == Entry(path, "dir") \in tree
IsFile(path) == Entry(path, "file") \in tree

dirs(dir) ==
    Sorted({e \in ListDir(dir) : IsDir(dir \o <<e>>) /\ ~StartsWith(e, <<".">>)})
\* files without the test of the extension.
files_anyExtension(dir) ==
    Sorted({e \in ListDir(dir) : IsFile(dir \o <<e>>)})
files(dir) ==
    Sorted({e \in ListDir(dir) : EndsWith(e, DotMd) /\ IsFile(dir \o <<e>>)})

\* f"{title_prefix} - {readable}" and f"{title_prefix} / {d}"
FileTitle(prefix, f) == prefix \o <<" ", "-", " ">> \o pretty_title(Stem(f))
SubPrefix(prefix, d) == prefix \o <<" ", "/", " ">> \o d

\* args.root_title or Path(dir_path).name.title(); no override is given.
root_title == StrTitle(RootDirName)

\* One call of upload_directory: its arguments and what is left of its loops.
Frame(dir, parent_id, prefix) ==
    [dir |-> dir, parent |-> parent_id, prefix |-> prefix,
     files |-> files(dir), dirs |-> dirs(dir)]

\* A recursion that does not look at the id.
DescendAlways(folder_id) == TRUE

\* "if folder_id:" before a recursion.
Descend(folder_id) == Truthy(folder_id)

(***************************************************************************)
(* The command line and the environment.                                   *)
(***************************************************************************)
Envs == { [email |-> "set", token |-> "set"], [email |-> "unset", token |-> "set"],
          [email |-> "set", token |-> "empty"], [email |-> "unset", token |-> "unset"] }

DeleteTargets == {root_title, nG}

\* delete: the --delete title or None; dir: no --dir, a path that is no
\* directory, or the source directory; dry: --dry-run.
ArgSets == [delete : DeleteTargets \cup {None}, dir : {"none", "notdir", "source"},
            dry : BOOLEAN]

NoCall == [op |-> "none", path |-> <<>>, title |-> <<>>, existed |-> FALSE,
           found |-> None, ret |-> None, ok |-> FALSE, sent |-> FALSE,
           answered |-> FALSE, paced |-> TRUE]

NoFirst == [args |-> [delete |-> None, dir |-> "none", dry |-> FALSE],
            stats |-> ZeroStats, exitCode |-> -1, faults |-> 0]

\* The spaces a session starts from: empty, a root page of the root title,
\* or that page with one child; titles are unique in each.
InitSpaces ==
    { {},
      { Page(PageId(1), root_title, ParentArg) },
      { Page(PageId(1), root_title, ParentArg), Page(PageId(2), nG, PageId(1)) } }

Init ==
    /\ tree \in Trees
    /\ space \in InitSpaces
    /\ nextId = Cardinality(space) + 1
    /\ faults = 0
    /\ run = 1
    /\ pc = "start"
    /\ env = [email |-> "set", token |-> "set"]
    /\ args = NoFirst.args
    /\ exitCode = -1
    /\ stats = ZeroStats
    /\ root = [id |-> None, title |-> <<>>]
    /\ topFiles = <<>>
    /\ topDirs = <<>>
    /\ stack = <<>>
    /\ calls = <<>>
    /\ lastCall = NoCall
    /\ sincePace = "start"
    /\ spaceAtStart = space
    /\ first = NoFirst

(***************************************************************************)
(* The program.                                                            *)
(***************************************************************************)
remoteVars == <<space, nextId>>
walkVars == <<root, topFiles, topDirs, stack>>
procVars == <<run, env, args, spaceAtStart, first>>

Exit(code) == pc' = "exit" /\ exitCode' = code

\* What one create_page call leaves behind, and the history of it.  A
\* response to a request that is not sent is not drawn twice.
Created(r, path, title, parent_id, resp, post) ==
    /\ faults + FaultsOf(resp, r, post, {200, 201}) <= MaxFaults
    /\ r.sent \/ post.status = 200
    /\ space' = r.space
    /\ nextId' = IF r.stored THEN nextId + 1 ELSE nextId
    /\ stats' = r.stats
    /\ faults' = faults + FaultsOf(resp, r, post, {200, 201})
    /\ calls' = Append(calls, [path |-> path, ret |-> r.ret])
    /\ lastCall' = [op |-> "create", path |-> path, title |-> title,
                    existed |-> Matches(title) # {},
                    found |-> find_page(title, resp), ret |-> r.ret,
                    ok |-> Truthy(r.ret), sent |-> r.sent,
                    answered |-> r.sent /\ post.status \in {200, 201},
                    paced |-> sincePace # "created"]

\* main, lines 224-226: the arguments are parsed, the credentials read and
\* the client built; get_auth exits with status 1.
Launch ==
    /\ pc = "start"
    /\ \E e \in Envs, a \in ArgSets :
        /\ env' = e
        /\ args' = a
        /\ IF get_auth(e) THEN pc' = "ready" /\ exitCode' = exitCode ELSE Exit(1)
    /\ stats' = ZeroStats
    /\ UNCHANGED <<tree, remoteVars, faults, run, walkVars, calls, lastCall, sincePace,
                   spaceAtStart, first>>

\* main, lines 233-238: delete mode.
MainDelete ==
    /\ pc = "ready"
    /\ Truthy(args.delete)
    /\ \E resp \in LookupResponses(args.delete), del \in DeleteResponses :
        LET r == delete_page(args.delete, resp, del)
        IN  /\ faults + FaultsOf(resp, r, del, {200, 204}) <= MaxFaults
            /\ r.sent \/ del.status = 204
            /\ space' = r.space
            /\ stats' = r.stats
            /\ faults' = faults + FaultsOf(resp, r, del, {200, 204})
            /\ lastCall' = [op |-> "delete", path |-> <<>>, title |-> args.delete,
                            existed |-> Matches(args.delete) # {},
                            found |-> find_page(args.delete, resp), ret |-> None,
                            ok |-> r.ret, sent |-> r.sent,
                            answered |-> r.sent /\ del.status \in {200, 204},
                            paced |-> TRUE]
    /\ Exit(0)
    /\ UNCHANGED <<tree, nextId, procVars, walkVars, calls, sincePace>>

\* main, lines 241-242: parser.error exits with status 2.
MainUsageError ==
    /\ pc = "ready"
    /\ ~Truthy(args.delete)
    /\ args.dir = "none"
    /\ Exit(2)
    /\ UNCHANGED <<tree, remoteVars, faults, procVars, stats, walkVars, calls, lastCall,
                   sincePace>>

\* main, lines 244-247.
MainNotADirectory ==
    /\ pc = "ready"
    /\ ~Truthy(args.delete)
    /\ args.dir = "notdir"
    /\ Exit(1)
    /\ UNCHANGED <<tree, remoteVars, faults, procVars, stats, walkVars, calls, lastCall,
                   sincePace>>

\* main, lines 249-271: the root page, then the top-level listing.
MainUploadStart ==
    /\ pc = "ready"
    /\ ~Truthy(args.delete)
    /\ args.dir = "source"
    /\ \E resp \in LookupResponses(root_title), post \in PostResponses :
        LET r == create_page(root_title, ParentArg, resp, post)
        IN  /\ Created(r, <<>>, root_title, ParentArg, resp, post)
            /\ root' = [id |-> r.ret, title |-> root_title]
            /\ IF ~Truthy(r.ret)
               THEN Exit(1) /\ topFiles' = <<>> /\ topDirs' = <<>>
               ELSE /\ pc' = "main"
                    /\ exitCode' = exitCode
                    /\ topDirs' = dirs(<<>>)
                    /\ topFiles' = files(<<>>)
    /\ UNCHANGED <<tree, procVars, stack, sincePace>>

\* main, lines 274-282: one top-level document, then the delay.
MainTopFile ==
    /\ pc = "main"
    /\ stack = <<>>
    /\ topFiles # <<>>
    /\ LET f == Head(topFiles)
           title == FileTitle(root.title, f)
       IN  \E resp \in LookupResponses(title), post \in PostResponses :
            Created(create_page(title, root.id, resp, post), <<f>>, title, root.id,
                    resp, post)
    /\ topFiles' = Tail(topFiles)
    /\ sincePace' = "slept"
    /\ UNCHANGED <<tree, procVars, pc, exitCode, root, topDirs, stack>>

\* main, lines 285-291: one top-level directory; no delay follows.
MainTopDir ==
    /\ pc = "main"
    /\ stack = <<>>
    /\ topFiles = <<>>
    /\ topDirs # <<>>
    /\ LET d == Head(topDirs)
       IN  \E resp \in LookupResponses(d), post \in PostResponses :
            LET r == create_page(d, root.id, resp, post)
            IN  /\ Created(r, <<d>>, d, root.id, resp, post)
                /\ stack' = IF Descend(r.ret) THEN <<Frame(<<d>>, r.ret, d)>> ELSE <<>>
    /\ topDirs' = Tail(topDirs)
    /\ sincePace' = "created"
    /\ UNCHANGED <<tree, procVars, pc, exitCode, root, topFiles>>

Top == stack[Len(stack)]
SetTop(fr) == [stack EXCEPT ![Len(stack)] = fr]

\* upload_directory, lines 186-195: one document, then the delay.
WalkFile ==
    /\ pc = "main"
    /\ stack # <<>>
    /\ Top.files # <<>>
    /\ LET f == Head(Top.files)
           title == FileTitle(Top.prefix, f)
       IN  \E resp \in LookupResponses(title), post \in PostResponses :
            Created(create_page(title, Top.parent, resp, post), Top.dir \o <<f>>, title,
                    Top.parent, resp, post)
    /\ stack' = SetTop([Top EXCEPT !.files = Tail(@)])
    /\ sincePace' = "slept"
    /\ UNCHANGED <<tree, procVars, pc, exitCode, root, topFiles, topDirs>>

\* upload_directory, lines 198-205: one subdirectory.  With an id the call
\* recurses (the delay of line 205 follows the return); without, the delay
\* follows at once.
WalkDir ==
    /\ pc = "main"
    /\ stack # <<>>
    /\ Top.files = <<>>
    /\ Top.dirs # <<>>
    /\ LET d == Head(Top.dirs)
           sub_prefix == SubPrefix(Top.prefix, d)
           rest == SetTop([Top EXCEPT !.dirs = Tail(@)])
       IN  \E resp \in LookupResponses(sub_prefix), post \in PostResponses :
            LET r == create_page(sub_prefix, Top.parent, resp, post)
            IN  /\ Created(r, Top.dir \o <<d>>, sub_prefix, Top.parent, resp, post)
                /\ IF Descend(r.ret)
                   THEN /\ stack' = Append(rest, Frame(Top.dir \o <<d>>, r.ret, sub_prefix))
                        /\ sincePace' = "created"
                   ELSE /\ stack' = rest
                        /\ sincePace' = "slept"
    /\ UNCHANGED <<tree, procVars, pc, exitCode, root, topFiles, topDirs>>

\* upload_directory returns: to upload_directory at line 205, which sleeps,
\* or to main at line 291, which does not.
WalkReturn ==
    /\ pc = "main"
    /\ stack # <<>>
    /\ Top.files = <<>>
    /\ Top.dirs = <<>>
    /\ stack' = SubSeq(stack, 1, Len(stack) - 1)
    /\ sincePace' = IF Len(stack) > 1 THEN "slept" ELSE sincePace
    /\ UNCHANGED <<tree, remoteVars, faults, procVars, pc, exitCode, stats, root,
                   topFiles, topDirs, calls, lastCall>>

\* main, line 293: print_stats, and the process ends with status 0.
MainFinish ==
    /\ pc = "main"
    /\ stack = <<>>
    /\ topFiles = <<>>
    /\ topDirs = <<>>
    /\ Exit(0)
    /\ UNCHANGED <<tree, remoteVars, faults, procVars, stats, walkVars, calls, lastCall,
                   sincePace>>

\* The same upload is run again, for real, against the same source and
\* target: a new process with a new client.
Rerun ==
    /\ pc = "exit"
    /\ run = 1
    /\ exitCode = 0
    /\ ~Truthy(args.delete)
    /\ run' = 2
    /\ first' = [args |-> args, stats |-> stats, exitCode |-> exitCode, faults |-> faults]
    /\ args' = [args EXCEPT !.dry = FALSE]
    /\ pc' = "ready"
    /\ exitCode' = -1
    /\ stats' = ZeroStats
    /\ root' = [id |-> None, title |-> <<>>]
    /\ calls' = <<>>
    /\ lastCall' = NoCall
    /\ sincePace' = "start"
    /\ spaceAtStart' = space
    /\ UNCHANGED <<tree, remoteVars, faults, env, topFiles, topDirs, stack>>

Next ==
    \/ Launch
    \/ MainDelete
    \/ MainUsageError
    \/ MainNotADirectory
    \/ MainUploadStart
    \/ MainTopFile
    \/ MainTopDir
    \/ WalkFile
    \/ WalkDir
    \/ WalkReturn
    \/ MainFinish
    \/ Rerun

Spec == Init /\ [][Next]_vars

(***************************************************************************)
(* Vocabulary of the properties.                                           *)
(***************************************************************************)
UploadMode == ~Truthy(args.delete) /\ args.dir = "source"

\* An upload that got past the root page and ended.
UploadDone == pc = "exit" /\ UploadMode /\ calls # <<>> /\ calls[1].ret # None

\* The second of two uploads has ended and no response of the session was a
\* non-success.
SecondDone == run = 2 /\ pc = "exit" /\ faults = 0

CallsFor(path) == {i \in DOMAIN calls : calls[i].path = path}
FileCalls == {i \in DOMAIN calls : IsFile(calls[i].path)}

\* A directory is visited iff it is the source root or its index-page call
\* returned an id and its parent directory is visited.
RECURSIVE Visited(_)
Visited(dir) ==
    \/ dir = <<>>
    \/ /\ \E i \in CallsFor(dir) : calls[i].ret # None
       /\ Visited(Parent(dir))

IsDocument(e) == e.kind = "file" /\ EndsWith(Name(e.path), DotMd)
StrictlyBelow(path, dir) ==
    Len(path) > Len(dir) /\ SubSeq(path, 1, Len(dir)) = dir

\* The title the program gives the page of a directory below the root, and
\* the title prefix of its children.
RECURSIVE PrefixOf(_)
PrefixOf(dir) ==
    IF dir = <<>> THEN root_title
    ELSE IF Len(dir) = 1 THEN dir[1]
    ELSE SubPrefix(PrefixOf(Parent(dir)), Name(dir))

TitleOf(e) ==
    IF e.kind = "dir" THEN PrefixOf(e.path)
    ELSE FileTitle(PrefixOf(Parent(e.path)), Name(e.path))

\* The entries that get a page: documents and directories with no hidden
\* directory on their path.
RECURSIVE NoHidden(_)
NoHidden(dir) ==
    dir = <<>> \/ (~StartsWith(Name(dir), <<".">>) /\ NoHidden(Parent(dir)))
PageBearing(e) ==
    IF e.kind = "dir" THEN NoHidden(e.path)
    ELSE IsDocument(e) /\ NoHidden(Parent(e.path))

CredentialMissing ==
    env.email \in {"unset", "empty"} \/ env.token \in {"unset", "empty"}

(***************************************************************************)
(* C1.  Idempotent re-run, as claimed: when upload mode is run twice for   *)
(* real against the same source and target with no failing response, the   *)
(* second run creates nothing, leaves the space as it found it, and its    *)
(* skipped counter equals the first run's created counter.                 *)
(***************************************************************************)
C1_Original ==
    (SecondDone /\ ~first.args.dry) =>
        /\ stats.created = 0
        /\ space = spaceAtStart
        /\ stats.skipped = first.stats.created

\* C1 as amended: the second run creates nothing, leaves the space as it
\* found it, and its skipped counter equals the first run's created counter
\* plus the first run's skipped counter.
C1_Amended ==
    (SecondDone /\ ~first.args.dry) =>
        /\ stats.created = 0
        /\ space = spaceAtStart
        /\ stats.skipped = first.stats.created + first.stats.skipped

C1_Witness ==
    /\ SecondDone
    /\ ~first.args.dry
    /\ first.stats.created >= 2
    /\ first.stats.skipped >= 1

(***************************************************************************)
(* C2.  Dry run issues no mutating call: with --dry-run no create or       *)
(* delete request is sent and the space stays as it was at the start of    *)
(* the run; create_page for an absent title returns the synthetic id and   *)
(* delete_page for an existing title returns success.                      *)
(***************************************************************************)
C2_DryRun ==
    args.dry =>
        /\ space = spaceAtStart
        /\ ~lastCall.sent
        /\ (lastCall.op = "create" /\ ~lastCall.existed => lastCall.ret = DryRunId)
        /\ (lastCall.op = "delete" /\ lastCall.existed => lastCall.ok)

\* The part of C2 that the program keeps: no mutating request, the space
\* unchanged, the synthetic id for an absent title, and success for a title
\* the lookup found.
C2_DryRunFound ==
    args.dry =>
        /\ space = spaceAtStart
        /\ ~lastCall.sent
        /\ (lastCall.op = "create" /\ ~lastCall.existed => lastCall.ret = DryRunId)
        /\ (lastCall.op = "delete" /\ lastCall.found # None => lastCall.ok)

(***************************************************************************)
(* C3.  Dry run predicts the real run: the created counter of a dry-run    *)
(* upload equals the created counter of the real upload of the same source *)
(* from the same space, when no response is a non-success.                 *)
(***************************************************************************)
C3_DryRunPredicts ==
    (SecondDone /\ first.args.dry) => stats.created = first.stats.created

(***************************************************************************)
(* C4.  Title uniqueness before create: no create request is sent for a    *)
(* title that a page of the space has at that moment, whatever the lookup  *)
(* answered, and no two pages of the space have the same title.            *)
(***************************************************************************)
C4_UniqueTitles ==
    /\ (lastCall.op = "create" /\ lastCall.sent) => ~lastCall.existed
    /\ \A p, q \in space : p.title = q.title => p = q

(***************************************************************************)
(* C5.  Leaf attempts match documents: at the end of an upload that got    *)
(* past the root page, every document of a visited directory has exactly   *)
(* one create_page call, no other file has any, and the number of calls    *)
(* made for files is the number of documents in the visited directories.   *)
(***************************************************************************)
C5_LeafAttempts ==
    UploadDone =>
        /\ \A e \in tree : e.kind = "file" =>
             Cardinality(CallsFor(e.path)) =
                 IF IsDocument(e) /\ Visited(Parent(e.path)) THEN 1 ELSE 0
        /\ Cardinality(FileCalls) =
             Cardinality({e \in tree : IsDocument(e) /\ Visited(Parent(e.path))})

C5_Witness ==
    /\ UploadDone
    /\ \E e \in tree : IsDocument(e) /\ Visited(Parent(e.path)) /\ CallsFor(e.path) # {}
    /\ \E e \in tree : IsDocument(e) /\ ~Visited(Parent(e.path))
    /\ \E e \in tree : e.kind = "file" /\ ~IsDocument(e)

(***************************************************************************)
(* C6.  Exit status, as claimed: the status is non-zero exactly when a     *)
(* credential is missing or the root page could not be created.            *)
(***************************************************************************)
RootFailed == UploadMode /\ calls # <<>> /\ calls[1].ret = None

C7_DeleteAbsent ==
    /\ (lastCall.op = "delete" /\ lastCall.found = None) =>
          /\ ~lastCall.ok
          /\ ~lastCall.sent
          /\ space = spaceAtStart
          /\ stats = ZeroStats
    /\ stats.deleted # 0 =>
          /\ stats.deleted = 1
          /\ lastCall.op = "delete"
          /\ lastCall.sent
          /\ lastCall.answered

C7_Witness ==
    /\ lastCall.op = "delete"
    /\ lastCall.found = None
    /\ ~lastCall.existed
    /\ ~args.dry
    /\ pc = "exit"

(***************************************************************************)
(* C8.  Subtree pruning on failure: after create_page returned the failure *)
(* marker for a directory no call is made for anything below it, failed    *)
(* counts each such return once, and the run goes on: it ends with status  *)
(* 0 having called every directory whose parent was visited.               *)
(***************************************************************************)
C8_Pruning ==
    /\ \A i \in DOMAIN calls : calls[i].ret = None =>
          \A j \in DOMAIN calls : ~StrictlyBelow(calls[j].path, calls[i].path)
    /\ stats.failed = Cardinality({i \in DOMAIN calls : calls[i].ret = None})
    /\ UploadDone =>
          /\ exitCode = 0
          /\ \A e \in tree :
                (e.kind = "dir" /\ ~StartsWith(Name(e.path), <<".">>)
                 /\ Visited(Parent(e.path))) => CallsFor(e.path) # {}

C8_Witness ==
    /\ UploadDone
    /\ \E i, j \in DOMAIN calls :
          /\ calls[i].ret = None
          /\ i < j
          /\ \E e \in tree : StrictlyBelow(e.path, calls[i].path)

(***************************************************************************)
(* C9.  Nesting is preserved: after a real upload from an empty space with *)
(* no failing response, the page of every file and directory has as parent *)
(* the page of the directory that holds it (the root page at the top       *)
(* level), and the root page has the configured parent.                    *)
(***************************************************************************)
C9_Nesting ==
    (run = 1 /\ UploadDone /\ ~args.dry /\ spaceAtStart = {} /\ faults = 0) =>
        /\ \A p \in Matches(root_title) : p.parent = ParentArg
        /\ \A e \in tree : PageBearing(e) =>
              /\ Matches(TitleOf(e)) # {}
              /\ \A p \in Matches(TitleOf(e)) :
                    \E q \in Matches(PrefixOf(Parent(e.path))) : p.parent = q.id

(***************************************************************************)
(* C10.  Pacing: a delay has passed between every create_page call of the  *)
(* traversal and the next remote call of the run.                          *)
(***************************************************************************)
C10_Pacing ==
    lastCall.op = "create" => lastCall.paced
====
